---- MODULE Spec2Model ----
(***************************************************************************)
(* The offset-tracking Writer and Document::write of pdf-rs (src/lib.rs).  *)
(*                                                                         *)
(* The sink (`stream: &mut dyn std::io::Write`) is the sequence of bytes   *)
(* it has received.  A byte is an integer 0..255.  A buffer too long to    *)
(* enumerate is kept in run-length form: a negative element -m stands for  *)
(* m * Unit zero bytes.  Byte counts (usize values: Writer.offset, the     *)
(* recorded positions) are kept as [hi, lo] with value hi * Unit + lo,     *)
(* lo < Unit, so that counts of ten decimal digits and more are reachable. *)
(* The wrap of usize at 2^64 is out of reach of the bounded runs below.    *)
(***************************************************************************)
EXTENDS Integers, Sequences, FiniteSets, TLC

VARIABLES
    stream,     \* Writer.stream: the bytes the sink has received
    offset,     \* Writer.offset
    pc,         \* 0: no Document::write running; i: about to run Prog[i]
    locals,     \* the `let ..._pos` bindings of Document::write
    result,     \* what the last call returned: "none" (running), "Ok", "Err"
    calls,      \* history: calls made by the caller so far
    docs,       \* history: Document::write calls so far
    fails,      \* history: appends the sink has rejected so far
    werrs,      \* history: Writer::write calls that returned Err so far
    sum,        \* history: total length of the buffers passed to Writer::write
    last,       \* history: the last append (who issued it, outcome, state before)
    lastCall,   \* history: "none", "write" (Writer::write) or "doc" (Document::write)
    docFrom,    \* history: Len(stream) when the last Document::write was entered
    docOff,     \* history: Writer.offset when the last Document::write was entered
    log,        \* history: outcome (TRUE = Ok) of each append of the last Document::write
    whole       \* history: what the last Document::write hands to the sink when no
                \* append fails, as Render gives it for the offset at its entry

vars == <<stream, offset, pc, locals, result, calls, docs, fails, werrs, sum, last,
          lastCall, docFrom, docOff, log, whole>>

\* ---------------------------------------------------------------- bounds
\* Calls the caller makes on one Writer.
MaxCalls == 2

\* Of which calls of Document::write.
MaxDocs == 1

\* Appends the sink rejects in one run.
MaxFails == 2

\* ------------------------------------------------------------ byte counts
\* The decimal digits of n as ASCII bytes ("{}" of a usize below Unit).
RECURSIVE Digits(_)
Digits(n) == IF n < 10 THEN <<48 + n>> ELSE Digits(n \div 10) \o <<48 + (n % 10)>>

Unit == 10^5
UnitDigits == Len(Digits(Unit)) - 1

Zero == [hi |-> 0, lo |-> 0]

Count(n) == [hi |-> n \div Unit, lo |-> n % Unit]

Plus(a, b) ==
    LET s == a.lo + b.lo
    IN  [hi |-> a.hi + b.hi + (s \div Unit), lo |-> s % Unit]

Less(a, b) == a.hi < b.hi \/ (a.hi = b.hi /\ a.lo < b.lo)

RECURSIVE RunUnits(_, _)
RunUnits(s, I) ==
    IF I = {} THEN 0
    ELSE LET i == CHOOSE j \in I : TRUE
         IN  (0 - s[i]) + RunUnits(s, I \ {i})

\* The number of bytes a sequence in run-length form stands for (buf.len()).
ByteLen(s) ==
    LET runs == {i \in DOMAIN s : s[i] < 0}
    IN  [hi |-> RunUnits(s, runs) + ((Len(s) - Cardinality(runs)) \div Unit),
         lo |-> (Len(s) - Cardinality(runs)) % Unit]

\* The first k bytes of buf, k < Unit.
RECURSIVE Prefix(_, _)
Prefix(buf, k) ==
    IF k = 0 \/ buf = <<>> THEN <<>>
    ELSE IF Head(buf) < 0 THEN [i \in 1..k |-> 0]
    ELSE <<Head(buf)>> \o Prefix(Tail(buf), k - 1)

\* ------------------------------------------------------------- the sink
\* How many bytes of a buffer a rejecting sink takes before it reports the
\* error: none, or some.
Partial == {0, 1}

\* What a sink may do with one write_all / write_fmt of buf: take it whole
\* (Ok), or take fewer than buf.len() bytes and report an error.  An empty
\* buffer is never rejected: write_all makes no call to the sink for it.
Outcomes(buf) ==
    {[ok |-> TRUE, n |-> 0]}
    \cup {[ok |-> FALSE, n |-> k] : k \in {j \in Partial :
                                            fails < MaxFails /\ Less(Count(j), ByteLen(buf))}}

\* self.stream.write_all(buf) / std::write!(writer.stream, ..): the sink after it.
WriteAll(s, buf, r) == IF r.ok THEN s \o buf ELSE s \o Prefix(buf, r.n)

\* ------------------------------------------------------------ the Writer
NEWLINE == 10
PERCENT == 37

\* Mutant: `self.offset = buf.len()` in place of `+=`.
WriteOffsetAssign(off, buf, r) == IF r.ok THEN ByteLen(buf) ELSE off

\* Mutant: the offset advanced before the `?`, so also when the append failed.
WriteOffsetEager(off, buf, r) == Plus(off, ByteLen(buf))

\* Mutant: the offset advanced by what the sink accepted, also on an error.
WriteOffsetPartial(off, buf, r) == IF r.ok THEN Plus(off, ByteLen(buf)) ELSE Plus(off, Count(r.n))

\* Writer::write, the offset after it: `?` returns before `self.offset += buf.len()`.
WriteOffset(off, buf, r) == IF r.ok THEN Plus(off, ByteLen(buf)) ELSE off

\* Writer::pos
Pos(off) == off

\* Mutant: the error of an append dropped (`let _ = ..`) and the function going on.
QuestionSwallow(ok, p) == [pc |-> p + 1, result |-> "none"]

\* The `?` operator inside Document::write: go on, or return the error at once.
Question(ok, p) ==
    IF ok THEN [pc |-> p + 1, result |-> "none"]
    ELSE [pc |-> 0, result |-> "Err"]

\* ------------------------------------------------------- Document::write
LocalNames == {"catalog_pos", "page_tree_pos", "page1_pos", "page1_contents_pos",
               "font_pos", "xref_pos"}

\* The statements of Document::write:
\*   W(buf)  writer.write(buf)?
\*   P(v)    let v = writer.pos()
\*   R(buf)  std::write!(writer.stream, <literal>)?
\*   E(v)    std::write!(writer.stream, "{:0>10} 00000 n\r\n", v)?
\*   N(v)    std::write!(writer.stream, "{}\n", v)?
W(buf) == [op |-> "write", buf |-> buf, var |-> ""]
P(v) == [op |-> "pos", buf |-> <<>>, var |-> v]
R(buf) == [op |-> "raw", buf |-> buf, var |-> ""]
E(v) == [op |-> "entry", buf |-> <<>>, var |-> v]
N(v) == [op |-> "num", buf |-> <<>>, var |-> v]

\* ------------------------------------------- mutants of the statement lists
\* Xref with xref_pos taken one statement late.
XrefPosLate ==
    <<
    \* 140: b"xref\n"
    W(<<120, 114, 101, 102, 10>>),
    \* let xref_pos = writer.pos(), moved below the write of "xref\n"
    P("xref_pos"),
    \* 141: b"0 6\n"
    W(<<48, 32, 54, 10>>),
    \* 142: write!(stream, "0000000000 65535 f\r\n")
    R(<<48, 48, 48, 48, 48, 48, 48, 48, 48, 48, 32, 54, 53, 53, 51, 53, 32, 102, 13, 10>>),
    \* 143: write!(stream, "{:0>10} 00000 n\r\n", catalog_pos)
    E("catalog_pos"),
    \* 144: write!(stream, "{:0>10} 00000 n\r\n", page_tree_pos)
    E("page_tree_pos"),
    \* 145: write!(stream, "{:0>10} 00000 n\r\n", page1_pos)
    E("page1_pos"),
    \* 146: write!(stream, "{:0>10} 00000 n\r\n", page1_contents_pos)
    E("page1_contents_pos"),
    \* 147: write!(stream, "{:0>10} 00000 n\r\n", font_pos)
    E("font_pos")
    >>

\* Page1 with page1_pos taken one statement late.
Page1PosLate ==
    <<
    \* 90: b"3 0 obj\n"
    W(<<51, 32, 48, 32, 111, 98, 106, 10>>),
    \* let page1_pos = writer.pos(), moved below the write of "3 0 obj\n"
    P("page1_pos"),
    \* 91: b"<<\n"
    W(<<60, 60, 10>>),
    \* 92: b"/Type /Page\n"
    W(<<47, 84, 121, 112, 101, 32, 47, 80, 97, 103, 101, 10>>),
    \* 93: b"/Parent 2 0 R\n"
    W(<<47, 80, 97, 114, 101, 110, 116, 32, 50, 32, 48, 32, 82, 10>>),
    \* 94: b"/MediaBox [0.0 0.0 612.0 792.0]\n"
    W(<<47, 77, 101, 100, 105, 97, 66, 111, 120, 32, 91, 48, 46, 48, 32, 48, 46, 48, 32, 54, 49, 50, 46, 48, 32, 55, 57, 50, 46, 48, 93, 10>>),
    \* 95: b"/Contents 4 0 R\n"
    W(<<47, 67, 111, 110, 116, 101, 110, 116, 115, 32, 52, 32, 48, 32, 82, 10>>),
    \* 96: b"/Resources << /Font << /F13 5 0 R >> >>\n"
    W(<<47, 82, 101, 115, 111, 117, 114, 99, 101, 115, 32, 60, 60, 32, 47, 70, 111, 110, 116, 32, 60, 60, 32, 47, 70, 49, 51, 32, 53, 32, 48, 32, 82, 32, 62, 62, 32, 62, 62, 10>>),
    \* 97: b">>\n"
    W(<<62, 62, 10>>),
    \* 98: b"endobj\n"
    W(<<101, 110, 100, 111, 98, 106, 10>>)
    >>

\* Page1Contents with the text changed and the /Length literal left as it was.
Page1ContentsLonger ==
    <<
    \* 109: let page1_contents_pos = writer.pos()
    P("page1_contents_pos"),
    \* 110: b"4 0 obj\n"
    W(<<52, 32, 48, 32, 111, 98, 106, 10>>),
    \* 111: b"<<\n"
    W(<<60, 60, 10>>),
    \* 113: b"/Length 39\n"
    W(<<47, 76, 101, 110, 103, 116, 104, 32, 51, 57, 10>>),
    \* 114: b">>\n"
    W(<<62, 62, 10>>),
    \* 115: b"stream\n"
    W(<<115, 116, 114, 101, 97, 109, 10>>),
    \* 116: b"BT\n"
    W(<<66, 84, 10>>),
    \* 117: b"/F13 10 Tf\n"
    W(<<47, 70, 49, 51, 32, 49, 48, 32, 84, 102, 10>>),
    \* 118: b"12 775 Td\n"
    W(<<49, 50, 32, 55, 55, 53, 32, 84, 100, 10>>),
    \* b"(Hello!!) Tj\n": one byte more of payload under the same /Length
    W(<<40, 72, 101, 108, 108, 111, 33, 33, 41, 32, 84, 106, 10>>),
    \* 120: b"ET\n"
    W(<<69, 84, 10>>),
    \* 121: b"endstream\n"
    W(<<101, 110, 100, 115, 116, 114, 101, 97, 109, 10>>),
    \* 122: b"endobj\n"
    W(<<101, 110, 100, 111, 98, 106, 10>>)
    >>

\* Trailer with /Size set to the number of objects.
TrailerStaleSize ==
    <<
    \* 150: b"trailer\n"
    W(<<116, 114, 97, 105, 108, 101, 114, 10>>),
    \* 151: b"<<\n"
    W(<<60, 60, 10>>),
    \* b"/Size 5\n": the object count, not the count plus one
    W(<<47, 83, 105, 122, 101, 32, 53, 10>>),
    \* 153: b"/Root 1 0 R\n"
    W(<<47, 82, 111, 111, 116, 32, 49, 32, 48, 32, 82, 10>>),
    \* 154: b">>\n"
    W(<<62, 62, 10>>)
    >>

\* ------------------------------------------------ the statement lists
Header ==
    <<
    \* 67: b"%PDF-1.7\n"
    W(<<37, 80, 68, 70, 45, 49, 46, 55, 10>>),
    \* 70: [PERCENT, 0x80, 0x81, 0x82, 0x83, NEWLINE]
    W(<<PERCENT, 128, 129, 130, 131, NEWLINE>>)
    >>

Catalog ==
    <<
    \* 72: let catalog_pos = writer.pos()
    P("catalog_pos"),
    \* 73: b"1 0 obj\n"
    W(<<49, 32, 48, 32, 111, 98, 106, 10>>),
    \* 74: b"<<\n"
    W(<<60, 60, 10>>),
    \* 75: b"/Type /Catalog\n"
    W(<<47, 84, 121, 112, 101, 32, 47, 67, 97, 116, 97, 108, 111, 103, 10>>),
    \* 76: b"/Pages 2 0 R\n"
    W(<<47, 80, 97, 103, 101, 115, 32, 50, 32, 48, 32, 82, 10>>),
    \* 77: b">>\n"
    W(<<62, 62, 10>>),
    \* 78: b"endobj\n"
    W(<<101, 110, 100, 111, 98, 106, 10>>)
    >>

PageTree ==
    <<
    \* 80: let page_tree_pos = writer.pos()
    P("page_tree_pos"),
    \* 81: b"2 0 obj\n"
    W(<<50, 32, 48, 32, 111, 98, 106, 10>>),
    \* 82: b"<<\n"
    W(<<60, 60, 10>>),
    \* 83: b"/Type /Pages\n"
    W(<<47, 84, 121, 112, 101, 32, 47, 80, 97, 103, 101, 115, 10>>),
    \* 84: b"/Kids [3 0 R]\n"
    W(<<47, 75, 105, 100, 115, 32, 91, 51, 32, 48, 32, 82, 93, 10>>),
    \* 85: b"/Count 1\n"
    W(<<47, 67, 111, 117, 110, 116, 32, 49, 10>>),
    \* 86: b">>\n"
    W(<<62, 62, 10>>),
    \* 87: b"endobj\n"
    W(<<101, 110, 100, 111, 98, 106, 10>>)
    >>

Page1 ==
    <<
    \* 89: let page1_pos = writer.pos()
    P("page1_pos"),
    \* 90: b"3 0 obj\n"
    W(<<51, 32, 48, 32, 111, 98, 106, 10>>),
    \* 91: b"<<\n"
    W(<<60, 60, 10>>),
    \* 92: b"/Type /Page\n"
    W(<<47, 84, 121, 112, 101, 32, 47, 80, 97, 103, 101, 10>>),
    \* 93: b"/Parent 2 0 R\n"
    W(<<47, 80, 97, 114, 101, 110, 116, 32, 50, 32, 48, 32, 82, 10>>),
    \* 94: b"/MediaBox [0.0 0.0 612.0 792.0]\n"
    W(<<47, 77, 101, 100, 105, 97, 66, 111, 120, 32, 91, 48, 46, 48, 32, 48, 46, 48, 32, 54, 49, 50, 46, 48, 32, 55, 57, 50, 46, 48, 93, 10>>),
    \* 95: b"/Contents 4 0 R\n"
    W(<<47, 67, 111, 110, 116, 101, 110, 116, 115, 32, 52, 32, 48, 32, 82, 10>>),
    \* 96: b"/Resources << /Font << /F13 5 0 R >> >>\n"
    W(<<47, 82, 101, 115, 111, 117, 114, 99, 101, 115, 32, 60, 60, 32, 47, 70, 111, 110, 116, 32, 60, 60, 32, 47, 70, 49, 51, 32, 53, 32, 48, 32, 82, 32, 62, 62, 32, 62, 62, 10>>),
    \* 97: b">>\n"
    W(<<62, 62, 10>>),
    \* 98: b"endobj\n"
    W(<<101, 110, 100, 111, 98, 106, 10>>)
    >>

Page1Contents ==
    <<
    \* 109: let page1_contents_pos = writer.pos()
    P("page1_contents_pos"),
    \* 110: b"4 0 obj\n"
    W(<<52, 32, 48, 32, 111, 98, 106, 10>>),
    \* 111: b"<<\n"
    W(<<60, 60, 10>>),
    \* 113: b"/Length 39\n"
    W(<<47, 76, 101, 110, 103, 116, 104, 32, 51, 57, 10>>),
    \* 114: b">>\n"
    W(<<62, 62, 10>>),
    \* 115: b"stream\n"
    W(<<115, 116, 114, 101, 97, 109, 10>>),
    \* 116: b"BT\n"
    W(<<66, 84, 10>>),
    \* 117: b"/F13 10 Tf\n"
    W(<<47, 70, 49, 51, 32, 49, 48, 32, 84, 102, 10>>),
    \* 118: b"12 775 Td\n"
    W(<<49, 50, 32, 55, 55, 53, 32, 84, 100, 10>>),
    \* 119: b"(Hello!) Tj\n"
    W(<<40, 72, 101, 108, 108, 111, 33, 41, 32, 84, 106, 10>>),
    \* 120: b"ET\n"
    W(<<69, 84, 10>>),
    \* 121: b"endstream\n"
    W(<<101, 110, 100, 115, 116, 114, 101, 97, 109, 10>>),
    \* 122: b"endobj\n"
    W(<<101, 110, 100, 111, 98, 106, 10>>)
    >>

Font ==
    <<
    \* 128: let font_pos = writer.pos()
    P("font_pos"),
    \* 129: b"5 0 obj\n"
    W(<<53, 32, 48, 32, 111, 98, 106, 10>>),
    \* 130: b"<<\n"
    W(<<60, 60, 10>>),
    \* 131: b"/Type /Font\n"
    W(<<47, 84, 121, 112, 101, 32, 47, 70, 111, 110, 116, 10>>),
    \* 132: b"/Subtype /Type1\n"
    W(<<47, 83, 117, 98, 116, 121, 112, 101, 32, 47, 84, 121, 112, 101, 49, 10>>),
    \* 133: b"/Name /F13\n"
    W(<<47, 78, 97, 109, 101, 32, 47, 70, 49, 51, 10>>),
    \* 134: b"/BaseFont /Times-Roman\n"
    W(<<47, 66, 97, 115, 101, 70, 111, 110, 116, 32, 47, 84, 105, 109, 101, 115, 45, 82, 111, 109, 97, 110, 10>>),
    \* 135: b"/Encoding /MacRomanEncoding\n"
    W(<<47, 69, 110, 99, 111, 100, 105, 110, 103, 32, 47, 77, 97, 99, 82, 111, 109, 97, 110, 69, 110, 99, 111, 100, 105, 110, 103, 10>>),
    \* 136: b">>\n"
    W(<<62, 62, 10>>),
    \* 137: b"endobj\n"
    W(<<101, 110, 100, 111, 98, 106, 10>>)
    >>

Xref ==
    <<
    \* 139: let xref_pos = writer.pos()
    P("xref_pos"),
    \* 140: b"xref\n"
    W(<<120, 114, 101, 102, 10>>),
    \* 141: b"0 6\n"
    W(<<48, 32, 54, 10>>),
    \* 142: write!(stream, "0000000000 65535 f\r\n")
    R(<<48, 48, 48, 48, 48, 48, 48, 48, 48, 48, 32, 54, 53, 53, 51, 53, 32, 102, 13, 10>>),
    \* 143: write!(stream, "{:0>10} 00000 n\r\n", catalog_pos)
    E("catalog_pos"),
    \* 144: write!(stream, "{:0>10} 00000 n\r\n", page_tree_pos)
    E("page_tree_pos"),
    \* 145: write!(stream, "{:0>10} 00000 n\r\n", page1_pos)
    E("page1_pos"),
    \* 146: write!(stream, "{:0>10} 00000 n\r\n", page1_contents_pos)
    E("page1_contents_pos"),
    \* 147: write!(stream, "{:0>10} 00000 n\r\n", font_pos)
    E("font_pos")
    >>

Trailer ==
    <<
    \* 150: b"trailer\n"
    W(<<116, 114, 97, 105, 108, 101, 114, 10>>),
    \* 151: b"<<\n"
    W(<<60, 60, 10>>),
    \* 152: b"/Size 6\n"
    W(<<47, 83, 105, 122, 101, 32, 54, 10>>),
    \* 153: b"/Root 1 0 R\n"
    W(<<47, 82, 111, 111, 116, 32, 49, 32, 48, 32, 82, 10>>),
    \* 154: b">>\n"
    W(<<62, 62, 10>>)
    >>

StartXref ==
    <<
    \* 156: b"startxref\n"
    W(<<115, 116, 97, 114, 116, 120, 114, 101, 102, 10>>),
    \* 157: write!(stream, "{}\n", xref_pos)
    N("xref_pos"),
    \* 158: b"%%EOF\n"
    W(<<37, 37, 69, 79, 70, 10>>)
    >>
Prog == Header \o Catalog \o PageTree \o Page1 \o Page1Contents \o Font \o Xref
        \o Trailer \o StartXref

\* ----------------------------------------------------------- formatting
\* s padded on the left with '0' to w bytes; unchanged when already w or longer.
PadLeft(s, w) == [i \in 1..(IF w > Len(s) THEN w - Len(s) ELSE 0) |-> 48] \o s

\* "{}" of a usize.
Decimal(o) ==
    IF o.hi = 0 THEN Digits(o.lo) ELSE Digits(o.hi) \o PadLeft(Digits(o.lo), UnitDigits)

\* "{:0>10} 00000 n\r\n": a minimum width of 10, never a truncation.
FormatEntry(o) == PadLeft(Decimal(o), 10) \o <<32, 48, 48, 48, 48, 48, 32, 110, 13, 10>>

\* "{}\n"
FormatNum(o) == Decimal(o) \o <<NEWLINE>>

\* The bytes a statement hands to the sink.
StepBytes(st, loc) ==
    CASE st.op = "write" -> st.buf
      [] st.op = "raw" -> st.buf
      [] st.op = "entry" -> FormatEntry(loc[st.var])
      [] st.op = "num" -> FormatNum(loc[st.var])
      [] OTHER -> <<>>

\* Document::write with every append accepted, entered with the Writer at
\* offset off.  The bytes Writer::write is given by statements lo..hi:
RECURSIVE Written(_, _)
Written(lo, hi) ==
    IF lo > hi THEN 0
    ELSE IF lo = hi THEN (IF Prog[lo].op = "write" THEN Len(Prog[lo].buf) ELSE 0)
    ELSE LET mid == (lo + hi) \div 2
         IN  Written(lo, mid) + Written(mid + 1, hi)

\* the bindings statement i sees:
LocalsAt(i, off) ==
    [v \in LocalNames |->
        LET ps == {j \in 1..(i - 1) : Prog[j].op = "pos" /\ Prog[j].var = v}
        IN  IF ps = {} THEN Zero
            ELSE Pos(Plus(off, Count(Written(1, (CHOOSE j \in ps : \A q \in ps : q <= j) - 1))))]

\* the bytes statements lo..hi hand to the sink:
RECURSIVE Emitted(_, _, _)
Emitted(lo, hi, off) ==
    IF lo = hi THEN StepBytes(Prog[lo], LocalsAt(lo, off))
    ELSE LET mid == (lo + hi) \div 2
         IN  Emitted(lo, mid, off) \o Emitted(mid + 1, hi, off)

\* and the whole output.
Render(off) == Emitted(1, Len(Prog), off)

\* ------------------------------------------------------------ the caller
\* 10^10 zero bytes in one buffer.
Bulk == <<0 - Unit>>

\* The buffers the caller passes to Writer::write.
Buffers == {<<>>, <<PERCENT, NEWLINE>>, Bulk}

NoAppend == [via |-> "none", ok |-> TRUE, buf |-> <<>>, off |-> Zero, len |-> 0]

Init ==
    /\ stream = <<>>
    /\ offset = Zero
    /\ pc = 0
    /\ locals = [v \in LocalNames |-> Zero]
    /\ result = "none"
    /\ calls = 0
    /\ docs = 0
    /\ fails = 0
    /\ werrs = 0
    /\ sum = Zero
    /\ last = NoAppend
    /\ lastCall = "none"
    /\ docFrom = 0
    /\ docOff = Zero
    /\ log = <<>>
    /\ whole = <<>>

\* The caller calls writer.write(buf).
WriterWrite ==
    /\ pc = 0
    /\ calls < MaxCalls
    /\ \E buf \in Buffers : \E r \in Outcomes(buf) :
        /\ stream' = WriteAll(stream, buf, r)
        /\ offset' = WriteOffset(offset, buf, r)
        /\ result' = IF r.ok THEN "Ok" ELSE "Err"
        /\ fails' = IF r.ok THEN fails ELSE fails + 1
        /\ werrs' = IF r.ok THEN werrs ELSE werrs + 1
        /\ sum' = Plus(sum, ByteLen(buf))
        /\ last' = [via |-> "write", ok |-> r.ok, buf |-> buf, off |-> offset,
                    len |-> Len(stream)]
    /\ calls' = calls + 1
    /\ lastCall' = "write"
    /\ UNCHANGED <<pc, locals, docs, docFrom, docOff, log, whole>>

\* The caller calls doc.write(&mut writer).
DocumentWrite ==
    /\ pc = 0
    /\ calls < MaxCalls
    /\ docs < MaxDocs
    /\ pc' = 1
    /\ result' = "none"
    /\ locals' = [v \in LocalNames |-> Zero]
    /\ calls' = calls + 1
    /\ docs' = docs + 1
    /\ last' = NoAppend
    /\ lastCall' = "doc"
    /\ docFrom' = Len(stream)
    /\ docOff' = offset
    /\ log' = <<>>
    /\ whole' = Render(offset)
    /\ UNCHANGED <<stream, offset, fails, werrs, sum>>

\* let v = writer.pos();
DocPos ==
    /\ pc \in 1..Len(Prog)
    /\ Prog[pc].op = "pos"
    /\ locals' = [locals EXCEPT ![Prog[pc].var] = Pos(offset)]
    /\ pc' = pc + 1
    /\ UNCHANGED <<stream, offset, result, calls, docs, fails, werrs, sum, last,
                   lastCall,
                   docFrom, docOff, log, whole>>

\* writer.write(buf)?;
DocWrite ==
    /\ pc \in 1..Len(Prog)
    /\ Prog[pc].op = "write"
    /\ LET buf == StepBytes(Prog[pc], locals)
       IN  \E r \in Outcomes(buf) :
            /\ stream' = WriteAll(stream, buf, r)
            /\ offset' = WriteOffset(offset, buf, r)
            /\ pc' = Question(r.ok, pc).pc
            /\ result' = Question(r.ok, pc).result
            /\ fails' = IF r.ok THEN fails ELSE fails + 1
            /\ werrs' = IF r.ok THEN werrs ELSE werrs + 1
            /\ sum' = Plus(sum, ByteLen(buf))
            /\ last' = [via |-> "write", ok |-> r.ok, buf |-> buf, off |-> offset,
                        len |-> Len(stream)]
            /\ log' = Append(log, r.ok)
    /\ UNCHANGED <<locals, calls, docs, lastCall, docFrom, docOff, whole>>

\* std::write!(writer.stream, ..)?;  The Writer is bypassed: offset stays.
DocFormat ==
    /\ pc \in 1..Len(Prog)
    /\ Prog[pc].op \in {"raw", "entry", "num"}
    /\ LET buf == StepBytes(Prog[pc], locals)
       IN  \E r \in Outcomes(buf) :
            /\ stream' = WriteAll(stream, buf, r)
            /\ pc' = Question(r.ok, pc).pc
            /\ result' = Question(r.ok, pc).result
            /\ fails' = IF r.ok THEN fails ELSE fails + 1
            /\ last' = [via |-> "stream", ok |-> r.ok, buf |-> buf, off |-> offset,
                        len |-> Len(stream)]
            /\ log' = Append(log, r.ok)
    /\ UNCHANGED <<offset, locals, calls, docs, werrs, sum, lastCall, docFrom, docOff,
                   whole>>

\* return Ok(());
DocReturn ==
    /\ pc = Len(Prog) + 1
    /\ pc' = 0
    /\ result' = "Ok"
    /\ UNCHANGED <<stream, offset, locals, calls, docs, fails, werrs, sum, last,
                   lastCall,
                   docFrom, docOff, log, whole>>

Next == WriterWrite \/ DocumentWrite \/ DocPos \/ DocWrite \/ DocFormat \/ DocReturn

Spec == Init /\ [][Next]_vars

\* ------------------------------------------------- reading the sink back
\* 'xref\n'
XREF_LINE == <<120, 114, 101, 102, 10>>
\* 'startxref\n'
STARTXREF_LINE == <<115, 116, 97, 114, 116, 120, 114, 101, 102, 10>>
\* 'trailer\n'
TRAILER_LINE == <<116, 114, 97, 105, 108, 101, 114, 10>>
\* 'stream\n'
STREAM_LINE == <<115, 116, 114, 101, 97, 109, 10>>
\* 'endstream'
ENDSTREAM == <<101, 110, 100, 115, 116, 114, 101, 97, 109>>
\* '/Length '
LENGTH_KEY == <<47, 76, 101, 110, 103, 116, 104, 32>>
\* '/Size '
SIZE_KEY == <<47, 83, 105, 122, 101, 32>>
\* '/Root '
ROOT_KEY == <<47, 82, 111, 111, 116, 32>>
\* ' 0 R\n'
REF_TAIL == <<32, 48, 32, 82, 10>>
\* ' 0 obj\n'
OBJ_TAIL == <<32, 48, 32, 111, 98, 106, 10>>
\* 'endobj\n'
ENDOBJ_LINE == <<101, 110, 100, 111, 98, 106, 10>>
\* '/Type /Catalog\n'
CATALOG_LINE == <<47, 84, 121, 112, 101, 32, 47, 67, 97, 116, 97, 108, 111, 103, 10>>
\* '0000000000 65535 f\r\n'
FREE_ENTRY == <<48, 48, 48, 48, 48, 48, 48, 48, 48, 48, 32, 54, 53, 53, 51, 53, 32, 102, 13, 10>>
\* ' 00000 n\r\n'
ENTRY_TAIL == <<32, 48, 48, 48, 48, 48, 32, 110, 13, 10>>

\* p occurs in s at index i.
Match(s, i, p) ==
    /\ i >= 1
    /\ i + Len(p) - 1 <= Len(s)
    /\ \A j \in 1..Len(p) : s[i + j - 1] = p[j]

\* The indices of s at which a line begins.
LineStarts(s) == {i \in 1..Len(s) : i = 1 \/ s[i - 1] = NEWLINE}

\* The lines of s that begin with p.
LinesAt(s, p) == {i \in LineStarts(s) : Match(s, i, p)}

\* The index of the first NEWLINE of s at or after i (Len(s) + 1 when none).
LineEnd(s, i) ==
    IF \E e \in i..Len(s) : s[e] = NEWLINE
    THEN CHOOSE e \in i..Len(s) : s[e] = NEWLINE /\ \A j \in i..(e - 1) : s[j] # NEWLINE
    ELSE Len(s) + 1

\* The text of the line of s from index i on, without its NEWLINE.
RestOfLine(s, i) == SubSeq(s, i, LineEnd(s, i) - 1)

IsDigits(s) == s # <<>> /\ \A i \in 1..Len(s) : s[i] \in 48..57

\* The number a run of ASCII digits denotes.
RECURSIVE Value(_)
Value(s) == IF s = <<>> THEN 0 ELSE Value(SubSeq(s, 1, Len(s) - 1)) * 10 + (s[Len(s)] - 48)

The(S) == CHOOSE x \in S : TRUE

IsProperPrefix(s, t) == Len(s) < Len(t) /\ s = SubSeq(t, 1, Len(s))

\* The bytes the sink received from the last Document::write.
Out == SubSeq(stream, docFrom + 1, Len(stream))

\* The last call was a Document::write and it returned Ok.
DocOk == lastCall = "doc" /\ pc = 0 /\ result = "Ok"

\* ... and it was the first call on a Writer just made by Writer::new over an empty sink.
DocOkFresh == DocOk /\ calls = 1 /\ docFrom = 0 /\ docOff = Zero

\* The lines "<digit> 0 obj" of s.
ObjLines(s) == {i \in LineStarts(s) : s[i] \in 48..57 /\ Match(s, i + 1, OBJ_TAIL)}

\* The index of s at which the first xref entry begins: after "xref\n" and the
\* subsection header line.
FirstEntry(s) == LineEnd(s, The(LinesAt(s, XREF_LINE)) + Len(XREF_LINE)) + 1

\* The last append was issued by Writer::write and the sink rejected it.
WriteFailed == last.via = "write" /\ ~last.ok

\* --------------------------------------------------------------- claims

\* C1: as long as every Writer::write so far returned Ok, pos() equals the sum
\* of the lengths of all buffers passed to write.
PosIsSumOfWrittenLengths == werrs = 0 => Pos(offset) = sum

C1_Witness == werrs = 0 /\ DocOk /\ calls = 2 /\ Less(docOff, offset) /\ Less(Zero, docOff)

\* C2: when the sink rejects an append inside Writer::write, the call returns
\* the error and the offset is what it was before the call.
FailedWriteKeepsOffset ==
    WriteFailed => offset = last.off /\ result = "Err" /\ pc = 0

C2_Witness ==
    /\ WriteFailed
    /\ fails = 2
    /\ offset # Zero
    /\ Len(stream) > last.len
    /\ result = "Err"

\* C3: after an Ok Document::write on a fresh Writer, the number on the line
\* after "startxref" is the byte index of the one line "xref" in the sink.
StartxrefPointsAtXref ==
    DocOkFresh =>
        LET xs == LinesAt(stream, XREF_LINE)
            ss == LinesAt(stream, STARTXREF_LINE)
        IN  /\ Cardinality(xs) = 1
            /\ Cardinality(ss) = 1
            /\ LET num == RestOfLine(stream, The(ss) + Len(STARTXREF_LINE))
               IN  IsDigits(num) /\ Value(num) = The(xs) - 1

C3_Witness ==
    /\ DocOkFresh
    /\ Cardinality(LinesAt(stream, XREF_LINE)) = 1
    /\ The(LinesAt(stream, XREF_LINE)) > 1

\* The pos() bound by the statement just before the write of "k 0 obj\n"
\* (no value when that statement is not a `let .. = writer.pos()`).
RecordedBefore(k) ==
    LET i == CHOOSE j \in 2..Len(Prog) :
                Prog[j].op = "write" /\ Prog[j].buf = <<48 + k>> \o OBJ_TAIL
    IN  IF Prog[i - 1].op = "pos" THEN {locals[Prog[i - 1].var]} ELSE {}

\* C4: after an Ok Document::write on a fresh Writer, for k in 1..5 the xref
\* entry at index k holds the pos() recorded just before "k 0 obj\n" was
\* written, which is the byte index of that line in the sink; so the
\* entries stand in ascending object-number order.
XrefEntriesPointAtObjects ==
    DocOkFresh =>
        \A k \in 1..5 :
            LET at == FirstEntry(stream) + 20 * k
                field == SubSeq(stream, at, at + 9)
                os == LinesAt(stream, <<48 + k>> \o OBJ_TAIL)
            IN  /\ Cardinality(os) = 1
                /\ IsDigits(field)
                /\ Value(field) = The(os) - 1
                /\ RecordedBefore(k) = {Count(The(os) - 1)}

C4_Witness ==
    /\ DocOkFresh
    /\ \A k \in 1..5 : Cardinality(LinesAt(stream, <<48 + k>> \o OBJ_TAIL)) = 1
    /\ Cardinality({The(LinesAt(stream, <<48 + k>> \o OBJ_TAIL)) : k \in 1..5}) = 5

\* C5: in the output of an Ok Document::write, the number after "/Length" is
\* the number of bytes between the end of "stream\n" and the start of
\* "endstream".
LengthMatchesPayload ==
    DocOk =>
        LET ls == LinesAt(Out, LENGTH_KEY)
            ss == LinesAt(Out, STREAM_LINE)
            es == LinesAt(Out, ENDSTREAM)
        IN  /\ Cardinality(ls) = 1
            /\ Cardinality(ss) = 1
            /\ Cardinality(es) = 1
            /\ LET num == RestOfLine(Out, The(ls) + Len(LENGTH_KEY))
               IN  /\ IsDigits(num)
                   /\ Value(num) = The(es) - (The(ss) + Len(STREAM_LINE))

C5_Witness ==
    /\ DocOk
    /\ Cardinality(LinesAt(Out, STREAM_LINE)) = 1
    /\ Cardinality(LinesAt(Out, ENDSTREAM)) = 1
    /\ The(LinesAt(Out, ENDSTREAM)) > The(LinesAt(Out, STREAM_LINE)) + Len(STREAM_LINE)

\* C6: in the output of an Ok Document::write with N objects, the xref section
\* is N+1 entries of exactly 20 bytes: "0000000000 65535 f\r\n", then per
\* object ten decimal digits and " 00000 n\r\n", whatever the offsets are.
XrefEntriesAre20Bytes ==
    DocOk =>
        LET n == Cardinality(ObjLines(Out))
            e0 == FirstEntry(Out)
            ts == LinesAt(Out, TRAILER_LINE)
        IN  /\ Cardinality(ts) = 1
            /\ The(ts) - e0 = 20 * (n + 1)
            /\ Match(Out, e0, FREE_ENTRY)
            /\ \A k \in 1..n :
                /\ IsDigits(SubSeq(Out, e0 + 20 * k, e0 + 20 * k + 9))
                /\ Match(Out, e0 + 20 * k + 10, ENTRY_TAIL)

\* C7: in the output of an Ok Document::write, /Size, the count of the xref
\* subsection header "0 <count>" and the number of xref entries emitted all
\* equal the number of "n 0 obj" objects plus one, and /Root names object 1,
\* the Catalog.
SizeAndCountsAgree ==
    DocOk =>
        LET n == Cardinality(ObjLines(Out))
            hdr == RestOfLine(Out, The(LinesAt(Out, XREF_LINE)) + Len(XREF_LINE))
            ts == LinesAt(Out, TRAILER_LINE)
            zs == LinesAt(Out, SIZE_KEY)
            rs == LinesAt(Out, ROOT_KEY)
            cs == LinesAt(Out, <<49>> \o OBJ_TAIL)
        IN  /\ Cardinality(LinesAt(Out, XREF_LINE)) = 1
            /\ Cardinality(ts) = 1
            /\ Cardinality(zs) = 1
            /\ Cardinality(rs) = 1
            /\ Cardinality(cs) = 1
            /\ Len(hdr) > 2 /\ hdr[1] = 48 /\ hdr[2] = 32
            /\ IsDigits(SubSeq(hdr, 3, Len(hdr)))
            /\ Value(SubSeq(hdr, 3, Len(hdr))) = n + 1
            /\ Cardinality({i \in FirstEntry(Out)..(The(ts) - 2) :
                              Out[i] = 13 /\ Out[i + 1] = NEWLINE}) = n + 1
            /\ IsDigits(RestOfLine(Out, The(zs) + Len(SIZE_KEY)))
            /\ Value(RestOfLine(Out, The(zs) + Len(SIZE_KEY))) = n + 1
            /\ Match(Out, The(rs) + Len(ROOT_KEY), <<49>> \o REF_TAIL)
            /\ \E c \in LinesAt(Out, CATALOG_LINE) :
                /\ The(cs) < c
                /\ \A e \in LinesAt(Out, ENDOBJ_LINE) : e > The(cs) => c < e

C7_Witness ==
    /\ DocOk
    /\ Cardinality(ObjLines(Out)) = 5
    /\ Cardinality(LinesAt(Out, SIZE_KEY)) = 1
    /\ docFrom > 0

\* C8: while every append succeeds, the Writer's offset equals the number of
\* bytes the sink has received, after each step of Document::write too.
OffsetCountsSinkBytes == fails = 0 => Pos(offset) = ByteLen(stream)

\* C9 as stated: a Writer::write that returns an error leaves none of the
\* buffer's bytes in the sink.
FailedWriteLeavesNothing == WriteFailed => Len(stream) = last.len

\* C9 as amended: a Writer::write that returns an error leaves in the sink a
\* proper prefix of the buffer, which may be empty or not, and the offset is
\* what it was before the call, so it does not count the bytes of that prefix.
FailedWriteLeavesPrefix ==
    WriteFailed =>
        LET k == Len(stream) - last.len
        IN  /\ k >= 0
            /\ Less(Count(k), ByteLen(last.buf))
            /\ SubSeq(stream, last.len + 1, Len(stream)) = Prefix(last.buf, k)
            /\ Pos(offset) = last.off

C9_Witness == WriteFailed /\ Len(stream) = last.len + 1 /\ offset = last.off

\* C10: when an append fails during Document::write, through Writer::write or
\* straight on the stream, Document::write returns the error at once: the failed
\* append is the last one it issued, and what the sink received from the call
\* is a proper prefix of what a successful call would have written.
DocFailureAborts ==
    lastCall = "doc" =>
        /\ \A i \in 1..(Len(log) - 1) : log[i]
        /\ (log # <<>> /\ ~log[Len(log)]) =>
                /\ pc = 0
                /\ result = "Err"
                /\ IsProperPrefix(Out, whole)

C10_Witness ==
    /\ lastCall = "doc"
    /\ last.via = "stream"
    /\ ~last.ok
    /\ Len(stream) > last.len
    /\ pc = 0
    /\ result = "Err"

====
